---- MODULE Spec2Model ----
(***************************************************************************)
(* Model of part3.py, a Streamlit dashboard script.  Streamlit re-runs the *)
(* whole script top to bottom on every widget interaction; one action of   *)
(* this model is one such run.  The state is the three CSV files on disk,  *)
(* the st.cache_data store of load_data, the widget values and the tables  *)
(* the script computes.                                                    *)
(*                                                                         *)
(* A table is a sequence of records (rows in index order).  A cell that    *)
(* pandas fills with NaN on index alignment is the empty sequence, a       *)
(* present cell v is <<v>>.  A team name is a sequence of characters so    *)
(* that str.strip() is modelled by what it does.                           *)
(***************************************************************************)
EXTENDS Integers, Sequences, FiniteSets

VARIABLES playerCsv, actualCsv, expectedCsv,
          cache, started, filesRead,
          df, options, min_minutes, selected_teams, filtered_df,
          actual, expected, comparison_data

vars == <<playerCsv, actualCsv, expectedCsv, cache, started, filesRead,
          df, options, min_minutes, selected_teams, filtered_df,
          actual, expected, comparison_data>>

(* ---------------------------- bounds ----------------------------------- *)
MaxRows == 3

(* ------------------------ program constants ---------------------------- *)
SliderMin == 0
SliderMax == 37
SliderDefault == 10

(* ------------------------- input universes ----------------------------- *)
Players == {"A", "B"}
TmOrder == <<"BOS", "LAL", "TOT">>
MPValues == {0, 20}
SliderInputs == {SliderMin, SliderDefault, 20, SliderMax}

Range(s) == {s[i] : i \in 1..Len(s)}

PlayerRows == [Player : Players, Tm : Range(TmOrder), MP : MPValues]

SeqsUpTo(S, n) == UNION {[1..k -> S] : k \in 0..n}

RawTables == SeqsUpTo(PlayerRows, MaxRows)

BC == <<"B", " ", "C">>
LA == <<"L", "A">>
TeamNames == {BC, LA}
PadVariants(b) == {b, b \o <<" ">>, <<" ">> \o b}
RawNames == UNION {PadVariants(b) : b \in TeamNames}

ActualRows == [TEAM : RawNames, WIN : {3, 7}, CONF : {"East", "West"}]
ExpectedRows == [TEAM_NAME : RawNames, W_PCT : {4, 6}]

(* ------------------------------ helpers -------------------------------- *)
NaN == <<>>
Cell(v) == <<v>>

RECURSIVE LStrip(_)
LStrip(s) == IF s # <<>> /\ Head(s) = " " THEN LStrip(Tail(s)) ELSE s

RECURSIVE RStrip(_)
RStrip(s) == IF s # <<>> /\ s[Len(s)] = " "
             THEN RStrip(SubSeq(s, 1, Len(s) - 1)) ELSE s

strip(s) == RStrip(LStrip(s))

(* names: the name column of a team table *)
OneRowPerTeam(names) ==
    \A i, j \in 1..Len(names) : strip(names[i]) = strip(names[j]) => i = j

ActualTables ==
    {t \in SeqsUpTo(ActualRows, Cardinality(TeamNames)) :
        OneRowPerTeam([i \in 1..Len(t) |-> t[i].TEAM])}
ExpectedTables ==
    {t \in SeqsUpTo(ExpectedRows, Cardinality(TeamNames)) :
        OneRowPerTeam([i \in 1..Len(t) |-> t[i].TEAM_NAME])}

(* boolean-mask indexing df[mask]: rows whose mask entry is TRUE, in order *)
RECURSIVE BoolIndexFrom(_, _, _)
BoolIndexFrom(t, mask, i) ==
    IF i > Len(t) THEN <<>>
    ELSE (IF mask[i] THEN <<t[i]>> ELSE <<>>) \o BoolIndexFrom(t, mask, i + 1)

BoolIndex(t, mask) == BoolIndexFrom(t, mask, 1)

(* --------------------------- load_data body ---------------------------- *)
tot_players(t) == {t[i].Player : i \in {j \in 1..Len(t) : t[j].Tm = "TOT"}}

(* variants of clean_mask: a slip in the boolean expression of the mask *)
clean_mask_tot_only(t) == [i \in 1..Len(t) |-> t[i].Tm = "TOT"]

clean_mask_no_negation(t) ==
    [i \in 1..Len(t) |-> (t[i].Tm = "TOT") \/ (t[i].Player \in tot_players(t))]

clean_mask_and(t) ==
    [i \in 1..Len(t) |-> (t[i].Tm = "TOT") /\ ~(t[i].Player \in tot_players(t))]

clean_mask(t) ==
    [i \in 1..Len(t) |-> (t[i].Tm = "TOT") \/ ~(t[i].Player \in tot_players(t))]

(* variant of load_data's body: returns df instead of clean_df *)
cleanPlayerTable_raw(t) == t

cleanPlayerTable(t) == BoolIndex(t, clean_mask(t))

(* variant of load_data: the decorator is missing, the body always runs *)
load_data_nocache ==
    [hit |-> FALSE, value |-> cleanPlayerTable(playerCsv)]

(* @st.cache_data: the body runs only when the store has no entry *)
load_data ==
    [hit   |-> cache # <<>>,
     value |-> IF cache # <<>> THEN cache[1] ELSE cleanPlayerTable(playerCsv)]

(* ------------------------------ widgets -------------------------------- *)
team_options(t) ==
    LET present(c) == \E i \in 1..Len(t) : t[i].Tm = c
    IN  SelectSeq(TmOrder, present)

(* ------------------------------ filter --------------------------------- *)
(* variants of minutes_mask: a wrong comparison operator *)
minutes_mask_strict(t, m) == [i \in 1..Len(t) |-> t[i].MP > m]
minutes_mask_le(t, m) == [i \in 1..Len(t) |-> t[i].MP <= m]

minutes_mask(t, m) == [i \in 1..Len(t) |-> t[i].MP >= m]
team_mask(t, S) == [i \in 1..Len(t) |-> t[i].Tm \in S]

(* variants of the filter: the team restriction applied even when no team *)
(* is selected; the first retained row lost                               *)
filter_no_guard(t, m, S) ==
    LET byMinutes == BoolIndex(t, minutes_mask(t, m))
    IN  BoolIndex(byMinutes, team_mask(byMinutes, S))

filter_skip_first(t, m, S) ==
    LET byMinutes == BoolIndex(t, minutes_mask(t, m))
        kept == IF S # {} THEN BoolIndex(byMinutes, team_mask(byMinutes, S))
                ELSE byMinutes
    IN  IF kept = <<>> THEN kept ELSE Tail(kept)

filterByMinutesAndTeam(t, m, S) ==
    LET byMinutes == BoolIndex(t, minutes_mask(t, m))
    IN  IF S # {} THEN BoolIndex(byMinutes, team_mask(byMinutes, S))
        ELSE byMinutes

(* ---------------------------- team tables ------------------------------ *)
strip_TEAM(t) == [i \in 1..Len(t) |-> [t[i] EXCEPT !.TEAM = strip(@)]]
strip_TEAM_NAME(t) == [i \in 1..Len(t) |-> [t[i] EXCEPT !.TEAM_NAME = strip(@)]]

Max(a, b) == IF a >= b THEN a ELSE b

(* pd.DataFrame of four Series: aligned on the row index, NaN where absent *)
joinTeamMetrics(a, e) ==
    [i \in 1..Max(Len(a), Len(e)) |->
        [Team             |-> IF i <= Len(a) THEN Cell(a[i].TEAM) ELSE NaN,
         Actual_Win_PCT   |-> IF i <= Len(a) THEN Cell(a[i].WIN) ELSE NaN,
         Expected_Win_PCT |-> IF i <= Len(e) THEN Cell(e[i].W_PCT) ELSE NaN,
         Conference       |-> IF i <= Len(a) THEN Cell(a[i].CONF) ELSE NaN]]

(* --------------------------- one script run ---------------------------- *)
Run(m, S) ==
    /\ df' = load_data.value
    /\ cache' = <<load_data.value>>
    /\ filesRead' = (IF load_data.hit THEN {} ELSE {"player"})
                        \cup {"actual", "expected"}
    /\ options' = team_options(df')
    /\ min_minutes' = m
    /\ selected_teams' = S
    /\ filtered_df' = filterByMinutesAndTeam(df', m, S)
    /\ actual' = strip_TEAM(actualCsv)
    /\ expected' = strip_TEAM_NAME(expectedCsv)
    /\ comparison_data' = joinTeamMetrics(actual', expected')
    /\ started' = TRUE
    /\ UNCHANGED <<playerCsv, actualCsv, expectedCsv>>

FirstRun ==
    /\ ~started
    /\ Run(SliderDefault, {})

SliderMove ==
    /\ started
    /\ \E m \in SliderInputs :
        /\ m # min_minutes
        /\ Run(m, selected_teams)

TeamSelect ==
    /\ started
    /\ \E S \in SUBSET Range(options) :
        /\ S # selected_teams
        /\ Run(min_minutes, S)

Next == FirstRun \/ SliderMove \/ TeamSelect

AlignedActual ==
    << [TEAM |-> BC \o <<" ">>, WIN |-> 7, CONF |-> "East"],
       [TEAM |-> LA, WIN |-> 3, CONF |-> "West"] >>
AlignedExpected ==
    << [TEAM_NAME |-> BC, W_PCT |-> 6],
       [TEAM_NAME |-> LA, W_PCT |-> 4] >>

OnePlayerTable == << [Player |-> "A", Tm |-> "LAL", MP |-> 20] >>

InitSession ==
    /\ cache = <<>>
    /\ started = FALSE
    /\ filesRead = {}
    /\ df = <<>>
    /\ options = <<>>
    /\ min_minutes = SliderDefault
    /\ selected_teams = {}
    /\ filtered_df = <<>>
    /\ actual = <<>>
    /\ expected = <<>>
    /\ comparison_data = <<>>

(* player file ranges over all bounded tables, team files are aligned *)
Init ==
    /\ playerCsv \in RawTables
    /\ actualCsv = AlignedActual
    /\ expectedCsv = AlignedExpected
    /\ InitSession

Spec == Init /\ [][Next]_vars

(* team files range over all bounded one-row-per-team tables *)
InitJoin ==
    /\ playerCsv = OnePlayerTable
    /\ actualCsv \in ActualTables
    /\ expectedCsv \in ExpectedTables
    /\ InitSession

SpecJoin == InitJoin /\ [][Next]_vars

(* ======================= properties of the claims ====================== *)

NamesOf(t) == {t[i].Player : i \in 1..Len(t)}
RowsOf(t, n) == {i \in 1..Len(t) : t[i].Player = n}
TotRowsOf(t, n) == {i \in 1..Len(t) : t[i].Player = n /\ t[i].Tm = "TOT"}

(* out is the rows of t at the indices K, in index order *)
IsSelection(out, t, K) ==
    /\ Len(out) = Cardinality(K)
    /\ \A i \in K : out[Cardinality({j \in K : j <= i})] = t[i]

RECURSIVE IsSubseq(_, _)
IsSubseq(a, b) ==
    IF a = <<>> THEN TRUE
    ELSE IF b = <<>> THEN FALSE
    ELSE IF Head(a) = Head(b) THEN IsSubseq(Tail(a), Tail(b))
    ELSE IsSubseq(a, Tail(b))

(* C1, as stated: every player name of the input occurs in exactly one    *)
(* row of the cleaned table.                                               *)
C1_ExactlyOneRowPerName ==
    started => \A n \in NamesOf(playerCsv) : Cardinality(RowsOf(df, n)) = 1

(* C1, amended: no player name of the input is missing from the cleaned   *)
(* table and the table has no other name; a name with a "TOT" row occurs  *)
(* once per "TOT" row it has, a name without one once per input row.      *)
C1_RowsPerName ==
    started =>
        /\ NamesOf(df) = NamesOf(playerCsv)
        /\ \A n \in NamesOf(playerCsv) :
            Cardinality(RowsOf(df, n)) =
                IF TotRowsOf(playerCsv, n) # {}
                THEN Cardinality(TotRowsOf(playerCsv, n))
                ELSE Cardinality(RowsOf(playerCsv, n))

C1_Witness ==
    /\ started
    /\ \E n \in NamesOf(playerCsv) :
        /\ Cardinality(RowsOf(playerCsv, n)) >= 2
        /\ Cardinality(RowsOf(df, n)) = 1
    /\ Cardinality(NamesOf(playerCsv)) = 2

(* C2: when a player name has a "TOT" row in the input, every row of the  *)
(* cleaned table with that name has team code "TOT".                      *)
C2_TotRowWins ==
    started =>
        \A i \in 1..Len(df) :
            TotRowsOf(playerCsv, df[i].Player) # {} => df[i].Tm = "TOT"

C2_Witness ==
    /\ started
    /\ \E n \in NamesOf(playerCsv) :
        /\ TotRowsOf(playerCsv, n) # {}
        /\ RowsOf(playerCsv, n) # TotRowsOf(playerCsv, n)
        /\ RowsOf(df, n) # {}

(* C3: every comparison row takes team name, actual win percentage,       *)
(* conference and expected win percentage from rows of one team: its      *)
(* expected win percentage is that of the expected-table row whose        *)
(* trimmed TEAM_NAME equals the row's trimmed TEAM.                       *)
C3_RowsOfOneTeam ==
    (/\ started
     /\ {strip(actualCsv[j].TEAM) : j \in 1..Len(actualCsv)}
          = {strip(expectedCsv[j].TEAM_NAME) : j \in 1..Len(expectedCsv)})
    =>
        \A i \in 1..Len(comparison_data) :
            LET c == comparison_data[i] IN
            /\ c.Team # NaN
            /\ \E j \in 1..Len(actualCsv) :
                /\ strip(actualCsv[j].TEAM) = c.Team[1]
                /\ c.Actual_Win_PCT = Cell(actualCsv[j].WIN)
                /\ c.Conference = Cell(actualCsv[j].CONF)
            /\ \E j \in 1..Len(expectedCsv) :
                /\ strip(expectedCsv[j].TEAM_NAME) = c.Team[1]
                /\ c.Expected_Win_PCT = Cell(expectedCsv[j].W_PCT)

(* C4: with minMinutes = 0 and no team selected the filter returns the    *)
(* whole cleaned table, same rows in the same order.                      *)
C4_NoOpAtZero ==
    (started /\ min_minutes = SliderMin /\ selected_teams = {})
        => filtered_df = df

C4_Witness ==
    /\ started
    /\ min_minutes = SliderMin
    /\ selected_teams = {}
    /\ Len(filtered_df) >= 2
    /\ \E i \in 1..Len(filtered_df) : filtered_df[i].MP = 0

(* C5: for the same table and team set, a minMinutes at least as large   *)
(* as the current one gives a result that has no more rows than the       *)
(* current result and is a subsequence of it.                             *)
C5_Monotonic ==
    started =>
        \A m2 \in SliderInputs :
            min_minutes <= m2 =>
                LET r2 == filterByMinutesAndTeam(df, m2, selected_teams)
                IN  /\ Len(r2) <= Len(filtered_df)
                    /\ IsSubseq(r2, filtered_df)

C5_Witness ==
    /\ started
    /\ selected_teams # {}
    /\ Len(filterByMinutesAndTeam(df, SliderMax, selected_teams))
         < Len(filtered_df)
    /\ Len(filtered_df)
         < Len(filterByMinutesAndTeam(df, SliderMin, selected_teams))

(* C6: filtering the filter's result again with the same minMinutes and   *)
(* team set gives that same result.                                       *)
C6_Idempotent ==
    started =>
        filterByMinutesAndTeam(filtered_df, min_minutes, selected_teams)
            = filtered_df

C6_Witness ==
    /\ started
    /\ Len(filtered_df) >= 2
    /\ Len(filtered_df) < Len(df)
    /\ selected_teams # {}

(* C7: the filter result is exactly the rows of the cleaned table, in     *)
(* table order, with MP >= minMinutes and, when the team set is not       *)
(* empty, team code in the team set; the cleaned table is still the one   *)
(* load_data returned.                                                    *)
C7_FilterIsSelection ==
    started =>
        /\ IsSelection(filtered_df, df,
              {i \in 1..Len(df) :
                  /\ df[i].MP >= min_minutes
                  /\ (selected_teams = {} \/ df[i].Tm \in selected_teams)})
        /\ df = cache[1]

C7_Witness ==
    /\ started
    /\ selected_teams # {}
    /\ \E i \in 1..Len(df) : df[i].MP = min_minutes /\ df[i].Tm \in selected_teams
    /\ \E i \in 1..Len(df) : df[i].MP < min_minutes /\ df[i].Tm \in selected_teams
    /\ \E i \in 1..Len(df) : df[i].MP >= min_minutes /\ df[i].Tm \notin selected_teams

C9_CleanIsSelection ==
    started =>
        /\ IsSelection(df, playerCsv,
              {i \in 1..Len(playerCsv) :
                  \/ playerCsv[i].Tm = "TOT"
                  \/ ~\E j \in 1..Len(playerCsv) :
                        /\ playerCsv[j].Player = playerCsv[i].Player
                        /\ playerCsv[j].Tm = "TOT"})
        /\ Len(df) <= Len(playerCsv)
        /\ Range(df) \subseteq Range(playerCsv)

C9_Witness ==
    /\ started
    /\ Len(df) = 2
    /\ Len(playerCsv) = 3
    /\ df[1].Tm # "TOT"
    /\ df[2].Tm = "TOT"

(* C10: with a non-empty team set that does not contain "TOT", no player  *)
(* with a "TOT" row in the raw table is in the filtered result; such a    *)
(* player is in a filtered result only by the "TOT" row, when the team    *)
(* set is empty or contains "TOT" and the row's minutes reach minMinutes; *)
(* "TOT" is a selectable option whenever the raw table has a "TOT" row.   *)
C10_TradedPlayersOnlyViaTot ==
    started =>
        /\ (selected_teams # {} /\ "TOT" \notin selected_teams) =>
              \A i \in 1..Len(filtered_df) :
                  filtered_df[i].Player \notin tot_players(playerCsv)
        /\ \A i \in 1..Len(filtered_df) :
              filtered_df[i].Player \in tot_players(playerCsv) =>
                  /\ selected_teams = {} \/ "TOT" \in selected_teams
                  /\ filtered_df[i].Tm = "TOT"
                  /\ filtered_df[i].MP >= min_minutes
        /\ (\E i \in 1..Len(playerCsv) : playerCsv[i].Tm = "TOT")
              => "TOT" \in Range(options)

C10_Witness ==
    /\ started
    /\ selected_teams # {}
    /\ "TOT" \notin selected_teams
    /\ filtered_df # <<>>
    /\ \E i \in 1..Len(playerCsv) :
        /\ playerCsv[i].Player \in tot_players(playerCsv)
        /\ playerCsv[i].Tm \in selected_teams
        /\ playerCsv[i].MP >= min_minutes

====
